---------------------------- MODULE Spec2Model ----------------------------
(***************************************************************************)
(* Model of mini-sys-info (src/main.cpp): the metric readers, the CPU and  *)
(* network rate derivation and the poll loop of main().                    *)
(*                                                                         *)
(* Numbers.  `ull` values are kept modulo 2^UllBits; the program's width   *)
(* is 64, the model's is smaller because TLC's integers are 32 bits wide.  *)
(* A `double` result is kept as an exact fraction                          *)
(* [num, den]: -1.0 is -1/1, 0.0 is 0/1, and a division x / y is the pair  *)
(* (x, y), so that a division by zero is visible as den = 0.               *)
(***************************************************************************)
EXTENDS Integers, Sequences, FiniteSets, TLC

VARIABLES
    pc,            \* position of the running code
    first_call,    \* get_cpu_usage: static bool first_call
    last_total,    \* get_cpu_usage: static ull last_total
    last_idle,     \* get_cpu_usage: static ull last_idle
    cpu_usage,     \* value returned by the latest get_cpu_usage call, or NoValue
    cpu_call,      \* what the latest get_cpu_usage call saw and computed
    history,       \* record of the completed get_cpu_usage calls (see NoSample)
    ram_usage,     \* value returned by the latest get_ram_usage call, or NoValue
    ram_call,      \* what the latest get_ram_usage call read
    previous_network_stats,  \* main: the map kept across iterations
    current_network_stats,   \* main: this iteration's map
    net_read,      \* the map the latest get_network_stats call returned
    old_network_stats,       \* previous_network_stats as this iteration found it
    net_deltas,    \* main: previous_rx, previous_tx, rx_delta, tx_delta per interface
    total_rx_rate, \* main: aggregate receive rate of this iteration
    total_tx_rate, \* main: aggregate transmit rate of this iteration
    ch,            \* main: the key getch returned in this iteration
    uptime,        \* main: value returned by get_uptime_seconds, or NoValue
    disk_usage,    \* main: value returned by get_disk_usage, or NoValue
    temperature,   \* main: value returned by get_cpu_temperature, or NoValue
    hostname,      \* main: value returned by get_hostname, or ""
    username,      \* main: value returned by get_username, or ""
    frame          \* what the screen shows: the optional rows of the latest frame

cpu_vars == <<first_call, last_total, last_idle, cpu_usage, cpu_call, history>>
ram_vars == <<ram_usage, ram_call>>
net_vars == <<previous_network_stats, current_network_stats, net_read,
              old_network_stats, net_deltas, total_rx_rate, total_tx_rate>>

misc_vars == <<uptime, disk_usage, temperature, hostname, username>>

vars == <<pc, cpu_vars, ram_vars, net_vars, ch, misc_vars, frame>>

-----------------------------------------------------------------------------
(* Bounds *)

\* modelled width of `ull` (64 in the program)
UllBits == 16
\* largest tick count of one field of an enumerated /proc/stat sample
MaxTick == 1
\* largest value of an enumerated /proc/meminfo entry
MaxKb == 2
\* largest number of entries of an enumerated /proc/meminfo
MaxEntries == 3
\* largest byte counter of an enumerated /proc/net/dev line
MaxBytes == 1

Modulus == 2 ^ UllBits

\* unsigned arithmetic of `ull`
Wrap(x) == x % Modulus

-----------------------------------------------------------------------------
(* double values *)

NoValue == [num |-> 0, den |-> 0, set |-> FALSE]
Double(n, d) == [num |-> n, den |-> d, set |-> TRUE]
Unavailable == Double(-1, 1)
Zero == Double(0, 1)

-----------------------------------------------------------------------------
(* get_cpu_usage *)

TickFields == {"user", "nice", "system", "idle", "iowait", "irq", "softirq", "steal"}

\* the two samples of the specification's end-to-end example:
\* (total, idle) = (100, 10) and then (200, 30)
ExampleCpuSamples ==
    { [f \in TickFields |-> CASE f = "user" -> 90  [] f = "idle" -> 10 [] OTHER -> 0],
      [f \in TickFields |-> CASE f = "user" -> 170 [] f = "idle" -> 30 [] OTHER -> 0] }

\* contents of the first line of /proc/stat
CpuSamples == [TickFields -> 0 .. MaxTick] \cup ExampleCpuSamples

IdleTime(s) == Wrap(s["idle"] + s["iowait"])

NonIdleTime(s) ==
    Wrap(s["user"] + s["nice"] + s["system"] + s["irq"] + s["softirq"] + s["steal"])

TotalTime(s) == Wrap(IdleTime(s) + NonIdleTime(s))

Usage_NoZeroCheck(total_delta, idle_delta) ==
    Double(100 * Wrap(total_delta - idle_delta), total_delta)
Usage_IdleShare(total_delta, idle_delta) ==
    IF total_delta = 0 THEN Zero ELSE Double(100 * idle_delta, total_delta)
\* lines 76-80: the guarded division
Usage(total_delta, idle_delta) ==
    IF total_delta = 0
    THEN Zero
    ELSE Double(100 * Wrap(total_delta - idle_delta), total_delta)

NoCall ==
    [outcome |-> "none", was_first |-> FALSE, old_total |-> 0, old_idle |-> 0,
     total_time |-> 0, idle_time |-> 0]

\* history of the completed calls:
\*   read, total, idle   the latest call that got past the open check parsed
\*                       its sample, and these are the sample's sums
\*   any_past_open       some call got past the open check
\*   after_open_failure  the latest call failed to open its source
NoSample ==
    [read |-> FALSE, total |-> 0, idle |-> 0,
     any_past_open |-> FALSE, after_open_failure |-> FALSE]

CpuOpenFailed_FallsThrough ==
    /\ cpu_usage' = Unavailable
    /\ cpu_call' = [NoCall EXCEPT !.outcome = "open_failed",
                                  !.was_first = first_call,
                                  !.old_total = last_total,
                                  !.old_idle = last_idle]
    /\ first_call' = FALSE
    /\ last_total' = 0
    /\ last_idle' = 0
\* the call returns at line 47 and touches nothing
CpuOpenFailed ==
    /\ cpu_usage' = Unavailable
    /\ cpu_call' = [NoCall EXCEPT !.outcome = "open_failed",
                                  !.was_first = first_call,
                                  !.old_total = last_total,
                                  !.old_idle = last_idle]
    /\ UNCHANGED <<first_call, last_total, last_idle>>

\* lines 62-64 and 73-74: the statics after a call that got past the open check
CpuStore(total_time, idle_time) ==
    /\ first_call' = FALSE
    /\ last_total' = total_time
    /\ last_idle' = idle_time

\* lines 50-80 with the eight locals holding s.  The stream state is never
\* tested, so the code runs the same way whether s was extracted from the
\* file (parsed) or the extraction failed and s is what the locals happen
\* to hold (indeterminate values).
CpuCompute(s, parsed) ==
    LET idle_time == IdleTime(s)
        total_time == TotalTime(s)
        total_delta == Wrap(total_time - last_total)
        idle_delta == Wrap(idle_time - last_idle)
    IN  /\ cpu_call' = [outcome |-> IF parsed THEN "ok" ELSE "parse_failed",
                        was_first |-> first_call,
                        old_total |-> last_total, old_idle |-> last_idle,
                        total_time |-> total_time, idle_time |-> idle_time]
        /\ CpuStore(total_time, idle_time)
        /\ cpu_usage' = IF first_call THEN Zero ELSE Usage(total_delta, idle_delta)

get_cpu_usage(samples) ==
    \/ CpuOpenFailed
    \/ \E s \in samples, parsed \in BOOLEAN : CpuCompute(s, parsed)

\* the locals of one call go out of scope
CpuDiscard ==
    /\ cpu_usage' = NoValue
    /\ cpu_call' = NoCall

\* the completed call enters the history
CpuRecord ==
    /\ history' =
          CASE cpu_call.outcome = "ok" ->
                 [read |-> TRUE, total |-> cpu_call.total_time,
                  idle |-> cpu_call.idle_time,
                  any_past_open |-> TRUE, after_open_failure |-> FALSE]
            [] cpu_call.outcome = "parse_failed" ->
                 [NoSample EXCEPT !.any_past_open = TRUE]
            [] cpu_call.outcome = "open_failed" ->
                 [history EXCEPT !.after_open_failure = TRUE]
            [] OTHER -> history

-----------------------------------------------------------------------------
(* get_ram_usage *)

\* /proc/meminfo is a sequence of entries "key value unit"; the HugePages
\* counters are printed without a unit
MemKeys == {"MemTotal:", "MemFree:", "MemAvailable:", "HugePages_Total:"}
HasUnit(key) == key # "HugePages_Total:"
MemEntries == [key : MemKeys, value : 0 .. MaxKb]

RECURSIVE SeqsUpTo(_, _)
SeqsUpTo(S, n) ==
    IF n = 0
    THEN {<<>>}
    ELSE LET shorter == SeqsUpTo(S, n - 1)
         IN  shorter \cup {Append(q, e) : q \in {r \in shorter : Len(r) = n - 1}, e \in S}

MemFiles == SeqsUpTo(MemEntries, MaxEntries)

\* the whitespace-separated tokens of the file: a word, or a number (n >= 0)
Word(w) == [w |-> w, n |-> -1]
Number(n) == [w |-> "", n |-> n]

RECURSIVE Tokens(_)
Tokens(file) ==
    IF file = <<>>
    THEN <<>>
    ELSE LET e == Head(file)
         IN  <<Word(e.key), Number(e.value)>>
               \o (IF HasUnit(e.key) THEN <<Word("kB")>> ELSE <<>>)
               \o Tokens(Tail(file))

\* lines 98-105: while (meminfo >> key >> value >> unit), from token i on.
\* The extraction fails at the end of the input and where the value token is
\* no number; "MemAvailable:" ends the scan.
RECURSIVE MemScan(_, _, _, _)
MemScan(toks, i, mem_total, mem_available) ==
    IF i + 2 > Len(toks) \/ toks[i + 1].n < 0
    THEN [mem_total |-> mem_total, mem_available |-> mem_available]
    ELSE IF toks[i].w = "MemTotal:"
         THEN MemScan(toks, i + 3, toks[i + 1].n, mem_available)
         ELSE IF toks[i].w = "MemAvailable:"
              THEN [mem_total |-> mem_total, mem_available |-> toks[i + 1].n]
              ELSE MemScan(toks, i + 3, mem_total, mem_available)

\* lines 107-111
RamPercent(mem_total, mem_available) ==
    IF mem_total = 0
    THEN Unavailable
    ELSE Double(Wrap(mem_total - mem_available) * 100, mem_total)

NoRamCall == [outcome |-> "none", file |-> <<>>]

get_ram_usage(files) ==
    \/ /\ ram_usage' = Unavailable
       /\ ram_call' = [outcome |-> "open_failed", file |-> <<>>]
    \/ \E file \in files :
          LET found == MemScan(Tokens(file), 1, 0, 0)
          IN  /\ ram_usage' = RamPercent(found.mem_total, found.mem_available)
              /\ ram_call' = [outcome |-> "read", file |-> file]

RamDiscard ==
    /\ ram_usage' = NoValue
    /\ ram_call' = NoRamCall

-----------------------------------------------------------------------------
(* get_network_stats and the rate computation of main *)

Interfaces == {"lo", "eth0", "wlan0"}

\* the byte counters of one line of /proc/net/dev
Counters(rx, tx) == [rx |-> rx, tx |-> tx]
LineCounters(name) ==
    IF name = "lo"
    THEN {Counters(rx, tx) : rx \in {0, MaxBytes}, tx \in {0, MaxBytes}}
    ELSE {Counters(rx, tx) : rx \in 0 .. MaxBytes, tx \in 0 .. MaxBytes}

EmptyStats == [n \in {} |-> Counters(0, 0)]

\* the two samples of the specification's end-to-end example
ExampleNetA == [n \in {"eth0"} |-> Counters(1000, 500)]
ExampleNetB ==
    [n \in {"eth0", "lo"} |-> IF n = "lo" THEN Counters(9999, 9999)
                                           ELSE Counters(1500, 500)]

\* what /proc/net/dev can hold: one line per interface that is present
NetDevFiles ==
    UNION { {f \in [present -> UNION {LineCounters(n) : n \in present}] :
               \A n \in present : f[n] \in LineCounters(n)} :
            present \in SUBSET Interfaces }
    \cup {ExampleNetA, ExampleNetB}

\* lines 204-250, by its result: the empty map when the file cannot be
\* opened, else the entry of every line
NetworkStats(opened, file) == IF opened THEN file ELSE EmptyStats

IsLoopback_Never(interface_name) == FALSE
\* line 411
IsLoopback(interface_name) == interface_name = "lo"

PreviousOf_CurrentIfNew(previous, current, interface_name) ==
    IF interface_name \in DOMAIN previous
    THEN previous[interface_name]
    ELSE current[interface_name]
\* lines 417-421: previous_rx and previous_tx of one interface
PreviousOf(previous, current, interface_name) ==
    IF interface_name \in DOMAIN previous
    THEN previous[interface_name]
    ELSE Counters(0, 0)

Delta_Unclamped(current, previous) == Wrap(current - previous)
\* lines 424-425
Delta(current, previous) ==
    IF current >= previous THEN Wrap(current - previous) ELSE 0

\* lines 409-426: the locals of the loop body, per interface that is not skipped
InterfaceDeltas(current, previous) ==
    [n \in {i \in DOMAIN current : ~IsLoopback(i)} |->
        LET prev == PreviousOf(previous, current, n)
        IN  [previous_rx |-> prev.rx, previous_tx |-> prev.tx,
             rx_delta |-> Delta(current[n].rx, prev.rx),
             tx_delta |-> Delta(current[n].tx, prev.tx)]]

\* lines 427-428 over the whole loop: the unsigned sum of one direction
RECURSIVE SumOf(_, _)
SumOf(deltas, dir) ==
    IF DOMAIN deltas = {}
    THEN 0
    ELSE LET n == CHOOSE i \in DOMAIN deltas : TRUE
             rest == [i \in DOMAIN deltas \ {n} |-> deltas[i]]
         IN  Wrap(deltas[n][dir] + SumOf(rest, dir))

Replaced_Merged(previous, current) ==
    [n \in DOMAIN previous \cup DOMAIN current |->
        IF n \in DOMAIN current THEN current[n] ELSE previous[n]]
\* line 431
Replaced(previous, current) == current

\* line 372: the priming read
NetPrime(files) ==
    \E opened \in BOOLEAN, file \in files :
        /\ net_read' = NetworkStats(opened, file)
        /\ previous_network_stats' = net_read'
        /\ UNCHANGED <<current_network_stats, old_network_stats, net_deltas,
                       total_rx_rate, total_tx_rate>>

\* lines 404-431
NetRates(files) ==
    \E opened \in BOOLEAN, file \in files :
        LET current == NetworkStats(opened, file)
            deltas == InterfaceDeltas(current, previous_network_stats)
        IN  /\ net_read' = current
            /\ current_network_stats' = current
            /\ old_network_stats' = previous_network_stats
            /\ net_deltas' = deltas
            /\ total_rx_rate' = SumOf(deltas, "rx_delta")
            /\ total_tx_rate' = SumOf(deltas, "tx_delta")
            /\ previous_network_stats' = Replaced(previous_network_stats, current)

NoDeltas == [n \in {} |-> [previous_rx |-> 0, previous_tx |-> 0,
                           rx_delta |-> 0, tx_delta |-> 0]]

\* the locals of one iteration go out of scope
NetDiscard ==
    /\ current_network_stats' = EmptyStats
    /\ old_network_stats' = EmptyStats
    /\ net_deltas' = NoDeltas
    /\ total_rx_rate' = 0
    /\ total_tx_rate' = 0
    /\ UNCHANGED <<previous_network_stats, net_read>>

-----------------------------------------------------------------------------
(* The remaining readers *)

\* /proc/uptime: absent, or a text that is a number of seconds or is not
UptimeFiles ==
    { [opened |-> FALSE, parsed |-> FALSE, seconds |-> 0],
      [opened |-> TRUE, parsed |-> FALSE, seconds |-> 0],
      [opened |-> TRUE, parsed |-> TRUE, seconds |-> 90] }

\* lines 118-127: 0.0 unless a value was extracted
get_uptime_seconds(file) ==
    IF file.opened /\ file.parsed THEN Double(file.seconds, 1) ELSE Zero

\* what statvfs("/") can answer
DiskStats ==
    { [rc |-> -1, f_blocks |-> 0, f_bavail |-> 0, f_frsize |-> 0],
      [rc |-> 0, f_blocks |-> 0, f_bavail |-> 0, f_frsize |-> 2],
      [rc |-> 0, f_blocks |-> 4, f_bavail |-> 1, f_frsize |-> 2] }

\* lines 134-150
get_disk_usage(st) ==
    IF st.rc # 0
    THEN Unavailable
    ELSE LET total_space == Wrap(st.f_blocks * st.f_frsize)
             available_space == Wrap(st.f_bavail * st.f_frsize)
         IN  IF total_space = 0
             THEN Zero
             ELSE Double(Wrap(total_space - available_space) * 100, total_space)

\* line 182: thermal_zone0 .. thermal_zone9 are probed
ZoneCount == 10

Closed == [opened |-> FALSE, parsed |-> FALSE, value |-> 0]
Garbled == [opened |-> TRUE, parsed |-> FALSE, value |-> 0]
Reading(v) == [opened |-> TRUE, parsed |-> TRUE, value |-> v]

\* the thermal zone files: none, a millidegree reading in zone 0, and a
\* whole-degree reading behind an absent and an unparsable zone
ThermalZones ==
    { [z \in 0 .. ZoneCount - 1 |-> Closed],
      [z \in 0 .. ZoneCount - 1 |-> IF z = 0 THEN Reading(45000) ELSE Closed],
      [z \in 0 .. ZoneCount - 1 |->
          CASE z = 1 -> Garbled [] z = 2 -> Reading(50) [] OTHER -> Closed] }

\* lines 182-197, from zone `zone` on
RECURSIVE Probe(_, _)
Probe(zones, zone) ==
    IF zone >= ZoneCount
    THEN Unavailable
    ELSE IF zones[zone].opened /\ zones[zone].parsed
         THEN IF zones[zone].value > 1000
              THEN Double(zones[zone].value, 1000)
              ELSE Double(zones[zone].value, 1)
         ELSE Probe(zones, zone + 1)

get_cpu_temperature(zones) == Probe(zones, 0)

\* lines 156-162 and 168-174
get_hostname(ok) == IF ok THEN "host" ELSE "Unknown"
get_username(ok) == IF ok THEN "user" ELSE "Unknown"

-----------------------------------------------------------------------------
(* main *)

\* what getch can return: ERR (no key), or a key
Keys == {"ERR", "q", "Q", "x"}

IsQuitKey_LowerOnly(c) == c = "q"
\* line 389
IsQuitKey(c) == c = "q" \/ c = "Q"

\* the inputs of the poll loop: the files of the specification's examples
LoopCpuSamples == ExampleCpuSamples
LoopMemFiles ==
    { <<[key |-> "MemTotal:", value |-> 2], [key |-> "MemAvailable:", value |-> 1]>>,
      <<[key |-> "MemFree:", value |-> 1]>> }
LoopNetFiles == {ExampleNetA, ExampleNetB}

\* x >= 0 for a double
NonNegative(x) == x.num >= 0

NoFrame ==
    [drawn |-> FALSE, temperature_row |-> FALSE, cpu_bar |-> FALSE,
     ram_bar |-> FALSE, disk_bar |-> FALSE]

\* lines 434-483: the rows that depend on a metric being available
Rendered ==
    [drawn |-> TRUE,
     temperature_row |-> NonNegative(temperature),
     cpu_bar |-> NonNegative(cpu_usage),
     ram_bar |-> NonNegative(ram_usage),
     disk_bar |-> NonNegative(disk_usage)]

\* lines 369-383: the priming read, the delay and the terminal setup
Startup ==
    /\ pc = "start"
    /\ NetPrime(LoopNetFiles)
    /\ pc' = "getch"
    /\ UNCHANGED <<cpu_vars, ram_vars, ch, misc_vars, frame>>

\* lines 388-391
PollKey ==
    /\ pc = "getch"
    /\ \E c \in Keys :
          /\ ch' = c
          /\ pc' = IF IsQuitKey(c) THEN "stopped" ELSE "cpu"
    /\ UNCHANGED <<cpu_vars, ram_vars, net_vars, misc_vars, frame>>

\* line 394
ReadCpu ==
    /\ pc = "cpu"
    /\ get_cpu_usage(LoopCpuSamples)
    /\ pc' = "ram"
    /\ UNCHANGED <<history, ram_vars, net_vars, ch, misc_vars, frame>>

\* line 395
ReadRam ==
    /\ pc = "ram"
    /\ get_ram_usage(LoopMemFiles)
    /\ pc' = "uptime"
    /\ UNCHANGED <<cpu_vars, net_vars, ch, misc_vars, frame>>

\* line 396
ReadUptime ==
    /\ pc = "uptime"
    /\ \E file \in UptimeFiles : uptime' = get_uptime_seconds(file)
    /\ pc' = "disk"
    /\ UNCHANGED <<cpu_vars, ram_vars, net_vars, ch, disk_usage, temperature,
                   hostname, username, frame>>

\* line 397
ReadDisk ==
    /\ pc = "disk"
    /\ \E st \in DiskStats : disk_usage' = get_disk_usage(st)
    /\ pc' = "temperature"
    /\ UNCHANGED <<cpu_vars, ram_vars, net_vars, ch, uptime, temperature,
                   hostname, username, frame>>

\* line 398
ReadTemperature ==
    /\ pc = "temperature"
    /\ \E zones \in ThermalZones : temperature' = get_cpu_temperature(zones)
    /\ pc' = "identity"
    /\ UNCHANGED <<cpu_vars, ram_vars, net_vars, ch, uptime, disk_usage,
                   hostname, username, frame>>

\* lines 400-401
ReadIdentity ==
    /\ pc = "identity"
    /\ \E host_ok \in BOOLEAN, user_ok \in BOOLEAN :
          /\ hostname' = get_hostname(host_ok)
          /\ username' = get_username(user_ok)
    /\ pc' = "network"
    /\ UNCHANGED <<cpu_vars, ram_vars, net_vars, ch, uptime, disk_usage,
                   temperature, frame>>

\* lines 404-431
ReadNetwork ==
    /\ pc = "network"
    /\ NetRates(LoopNetFiles)
    /\ pc' = "render"
    /\ UNCHANGED <<cpu_vars, ram_vars, ch, misc_vars, frame>>

\* lines 434-483
Render ==
    /\ pc = "render"
    /\ frame' = Rendered
    /\ pc' = "sleep"
    /\ UNCHANGED <<cpu_vars, ram_vars, net_vars, ch, misc_vars>>

\* lines 486-487: the sleep, and the locals of the iteration go out of scope
Sleep ==
    /\ pc = "sleep"
    /\ CpuDiscard
    /\ RamDiscard
    /\ NetDiscard
    /\ ch' = "none"
    /\ uptime' = NoValue
    /\ disk_usage' = NoValue
    /\ temperature' = NoValue
    /\ hostname' = ""
    /\ username' = ""
    /\ pc' = "getch"
    /\ UNCHANGED <<first_call, last_total, last_idle, history, frame>>

\* lines 496-499, after the break
Cleanup ==
    /\ pc = "stopped"
    /\ pc' = "exited"
    /\ ch' = "none"
    /\ frame' = NoFrame
    /\ UNCHANGED <<cpu_vars, ram_vars, net_vars, misc_vars>>


-----------------------------------------------------------------------------
(* Repeated calls of get_cpu_usage on arbitrary contents of /proc/stat *)

InitCommon ==
    /\ first_call = TRUE
    /\ last_total = 0
    /\ last_idle = 0
    /\ cpu_usage = NoValue
    /\ cpu_call = NoCall
    /\ history = NoSample
    /\ ram_usage = NoValue
    /\ ram_call = NoRamCall
    /\ previous_network_stats = EmptyStats
    /\ current_network_stats = EmptyStats
    /\ net_read = EmptyStats
    /\ old_network_stats = EmptyStats
    /\ net_deltas = NoDeltas
    /\ total_rx_rate = 0
    /\ total_tx_rate = 0
    /\ ch = "none"
    /\ uptime = NoValue
    /\ disk_usage = NoValue
    /\ temperature = NoValue
    /\ hostname = ""
    /\ username = ""
    /\ frame = NoFrame

Init == InitCommon /\ pc = "start"

Next ==
    \/ Startup
    \/ PollKey
    \/ ReadCpu
    \/ ReadRam
    \/ ReadUptime
    \/ ReadDisk
    \/ ReadTemperature
    \/ ReadIdentity
    \/ ReadNetwork
    \/ Render
    \/ Sleep
    \/ Cleanup

Spec == Init /\ [][Next]_vars

-----------------------------------------------------------------------------
(* Repeated calls of get_cpu_usage alone *)

InitCpu == InitCommon /\ pc = "cpu_call"

CpuCall ==
    /\ pc = "cpu_call"
    /\ get_cpu_usage(CpuSamples)
    /\ pc' = "cpu_returned"
    /\ UNCHANGED <<history, ram_vars, net_vars, ch, misc_vars, frame>>

CpuReturn ==
    /\ pc = "cpu_returned"
    /\ CpuDiscard
    /\ CpuRecord
    /\ pc' = "cpu_call"
    /\ UNCHANGED <<first_call, last_total, last_idle, ram_vars, net_vars, ch, misc_vars, frame>>

NextCpu == CpuCall \/ CpuReturn

SpecCpu == InitCpu /\ [][NextCpu]_vars

-----------------------------------------------------------------------------
(* Repeated calls of get_ram_usage on arbitrary contents of /proc/meminfo *)

InitRam == InitCommon /\ pc = "ram_call"

RamCall ==
    /\ pc = "ram_call"
    /\ get_ram_usage(MemFiles)
    /\ pc' = "ram_returned"
    /\ UNCHANGED <<cpu_vars, net_vars, ch, misc_vars, frame>>

RamReturn ==
    /\ pc = "ram_returned"
    /\ RamDiscard
    /\ pc' = "ram_call"
    /\ UNCHANGED <<cpu_vars, net_vars, ch, misc_vars, frame>>

NextRam == RamCall \/ RamReturn

SpecRam == InitRam /\ [][NextRam]_vars

-----------------------------------------------------------------------------
(* The network part of main on arbitrary contents of /proc/net/dev: the    *)
(* priming read, then one rate computation per iteration                   *)

InitNet == InitCommon /\ pc = "net_prime"

NetPriming ==
    /\ pc = "net_prime"
    /\ NetPrime(NetDevFiles)
    /\ pc' = "net_poll"
    /\ UNCHANGED <<cpu_vars, ram_vars, ch, misc_vars, frame>>

NetIteration ==
    /\ pc = "net_poll"
    /\ NetRates(NetDevFiles)
    /\ pc' = "net_shown"
    /\ UNCHANGED <<cpu_vars, ram_vars, ch, misc_vars, frame>>

NetIterationEnd ==
    /\ pc = "net_shown"
    /\ NetDiscard
    /\ pc' = "net_poll"
    /\ UNCHANGED <<cpu_vars, ram_vars, ch, misc_vars, frame>>

NextNet == NetPriming \/ NetIteration \/ NetIterationEnd

SpecNet == InitNet /\ [][NextNet]_vars

-----------------------------------------------------------------------------
(* Claims about get_cpu_usage, checked under SpecCpu *)

\* the deltas of the returned call against the latest parsed sample
DeltaTotal == Wrap(cpu_call.total_time - history.total)
DeltaIdle == Wrap(cpu_call.idle_time - history.idle)

\* C1: when every sample so far was read successfully, a call after the first
\* returns exactly 100 * (total_delta - idle_delta) / total_delta for
\* total_delta > 0, the deltas being taken against the immediately preceding
\* sample; the statics always hold the sums of the most recent sample (also
\* after a call that reported 0.0); the value lies in [0,100] when
\* idle_delta <= total_delta; (100,10) then (200,30) gives 80.0.
C1_CpuUsageFormula ==
    /\ (cpu_call.outcome = "none" /\ history.read) =>
          /\ ~first_call
          /\ last_total = history.total
          /\ last_idle = history.idle
    /\ cpu_call.outcome = "ok" =>
          /\ ~first_call
          /\ last_total = cpu_call.total_time
          /\ last_idle = cpu_call.idle_time
    /\ (cpu_call.outcome = "ok" /\ history.read) =>
          /\ ~cpu_call.was_first
          /\ DeltaTotal > 0 =>
                cpu_usage = Double(100 * Wrap(DeltaTotal - DeltaIdle), DeltaTotal)
          /\ (DeltaTotal > 0 /\ DeltaIdle <= DeltaTotal) =>
                /\ 0 <= cpu_usage.num
                /\ cpu_usage.num <= 100 * cpu_usage.den
          /\ (/\ history.total = 100 /\ history.idle = 10
              /\ cpu_call.total_time = 200 /\ cpu_call.idle_time = 30) =>
                cpu_usage.num = 80 * cpu_usage.den

\* the example of C1 has happened: (100,10), then (200,30) returned 80.0
C1_Witness ==
    /\ cpu_call.outcome = "ok"
    /\ history.read /\ history.total = 100 /\ history.idle = 10
    /\ cpu_call.total_time = 200 /\ cpu_call.idle_time = 30
    /\ cpu_usage = Double(8000, 100)

\* C2: no call divides by zero; a first call that reads a sample returns 0.0
\* and only stores the sample; a later call whose total_delta is 0 returns 0.0.
C2_NoDivisionByZero ==
    /\ cpu_usage.set => cpu_usage.den # 0
    /\ (cpu_call.outcome \in {"ok", "parse_failed"} /\ cpu_call.was_first) =>
          /\ cpu_usage = Zero
          /\ last_total = cpu_call.total_time
          /\ last_idle = cpu_call.idle_time
    /\ (/\ cpu_call.outcome \in {"ok", "parse_failed"}
        /\ ~cpu_call.was_first
        /\ cpu_call.total_time = cpu_call.old_total) =>
          cpu_usage = Zero

\* a later call saw the total unchanged while the idle sum moved, and returned
C2_Witness ==
    /\ cpu_call.outcome = "ok"
    /\ ~cpu_call.was_first
    /\ cpu_call.total_time = cpu_call.old_total
    /\ cpu_call.idle_time # cpu_call.old_idle
    /\ cpu_usage = Zero

\* C8: a call that cannot open or cannot parse its source returns the
\* unavailable marker and neither computes from nor stores values it did not
\* read.
C8_UnreadableIsUnavailable ==
    cpu_call.outcome \in {"open_failed", "parse_failed"} =>
        /\ cpu_usage = Unavailable
        /\ first_call = cpu_call.was_first
        /\ last_total = cpu_call.old_total
        /\ last_idle = cpu_call.old_idle

\* C10: a call that fails to open its source returns -1.0 and leaves
\* first_call, last_total and last_idle as they were; the next call that
\* succeeds is the bootstrap call when none got past the open check before,
\* and otherwise takes its deltas against the last sample read, across the
\* failed calls.
C10_OpenFailureFrame ==
    /\ cpu_call.outcome = "open_failed" =>
          /\ cpu_usage = Unavailable
          /\ first_call = cpu_call.was_first
          /\ last_total = cpu_call.old_total
          /\ last_idle = cpu_call.old_idle
    /\ (/\ cpu_call.outcome = "none"
        /\ history.after_open_failure
        /\ ~history.any_past_open) => first_call
    /\ (/\ cpu_call.outcome = "ok"
        /\ history.after_open_failure
        /\ ~history.any_past_open) =>
          /\ cpu_call.was_first
          /\ cpu_usage = Zero
    /\ (cpu_call.outcome = "ok" /\ history.after_open_failure /\ history.read) =>
          /\ cpu_call.old_total = history.total
          /\ cpu_call.old_idle = history.idle
          /\ cpu_usage = IF DeltaTotal = 0
                         THEN Zero
                         ELSE Double(100 * Wrap(DeltaTotal - DeltaIdle), DeltaTotal)

\* a sample was read, then a call failed to open, then a call read a sample
\* with a positive total_delta
C10_Witness ==
    /\ cpu_call.outcome = "ok"
    /\ history.after_open_failure
    /\ history.read
    /\ DeltaTotal > 0
    /\ cpu_usage.num > 0

-----------------------------------------------------------------------------
(* Claim about get_ram_usage, checked under SpecRam *)

KeyCount(file, key) == Cardinality({i \in 1 .. Len(file) : file[i].key = key})
ValueOf(file, key) == file[CHOOSE i \in 1 .. Len(file) : file[i].key = key].value

\* C9: for every readable input of "key value unit" entries that holds both
\* MemTotal and MemAvailable, in whatever order, with a nonzero total, the
\* reader returns 100 * (total - available) / total (it reports unavailable
\* only for an unreadable source or a zero total).
C9_BothKeysAnyOrder ==
    LET file == ram_call.file
    IN  (/\ ram_call.outcome = "read"
         /\ \A i \in 1 .. Len(file) : HasUnit(file[i].key)
         /\ KeyCount(file, "MemTotal:") = 1
         /\ KeyCount(file, "MemAvailable:") = 1
         /\ ValueOf(file, "MemTotal:") > 0) =>
            ram_usage =
                Double(Wrap(ValueOf(file, "MemTotal:")
                              - ValueOf(file, "MemAvailable:")) * 100,
                       ValueOf(file, "MemTotal:"))

-----------------------------------------------------------------------------
(* Claims about the network rates of main, checked under SpecNet *)

\* the stored counters an interface is compared with: 0 when it was absent
StoredBefore(n) ==
    IF n \in DOMAIN old_network_stats THEN old_network_stats[n] ELSE Counters(0, 0)

Contribution(n, dir) == IF n \in DOMAIN net_deltas THEN net_deltas[n][dir] ELSE 0

\* C3: for every non-loopback interface, and for rx and tx independently, a
\* current counter below the stored one contributes 0 to the aggregate (no
\* wrapped difference enters the sum); otherwise it contributes
\* current - previous.
C3_CounterDecreaseClamped ==
    pc = "net_shown" =>
        /\ DOMAIN net_deltas = DOMAIN current_network_stats \ {"lo"}
        /\ \A n \in DOMAIN net_deltas :
              LET cur == current_network_stats[n]
                  prev == StoredBefore(n)
              IN  /\ net_deltas[n].rx_delta =
                        IF cur.rx < prev.rx THEN 0 ELSE cur.rx - prev.rx
                  /\ net_deltas[n].tx_delta =
                        IF cur.tx < prev.tx THEN 0 ELSE cur.tx - prev.tx
        /\ total_rx_rate =
              Wrap(Contribution("eth0", "rx_delta") + Contribution("wlan0", "rx_delta"))
        /\ total_tx_rate =
              Wrap(Contribution("eth0", "tx_delta") + Contribution("wlan0", "tx_delta"))

\* eth0's rx counter fell while its tx counter rose, and wlan0 received
C3_Witness ==
    /\ pc = "net_shown"
    /\ "eth0" \in DOMAIN old_network_stats
    /\ "eth0" \in DOMAIN current_network_stats
    /\ "wlan0" \in DOMAIN current_network_stats
    /\ current_network_stats["eth0"].rx < old_network_stats["eth0"].rx
    /\ current_network_stats["eth0"].tx > old_network_stats["eth0"].tx
    /\ net_deltas["eth0"].rx_delta = 0
    /\ net_deltas["wlan0"].rx_delta > 0
    /\ total_rx_rate = net_deltas["wlan0"].rx_delta
    /\ total_tx_rate > 0

WithoutLo(stats) == [n \in DOMAIN stats \ {"lo"} |-> stats[n]]

\* C4: "lo" never contributes to the aggregate rates: they are what they
\* would be with "lo" absent from the current and from the previous sample;
\* {eth0:(1000,500)} then {eth0:(1500,500), lo:(9999,9999)} gives 500 and 0.
C4_LoopbackIgnored ==
    pc = "net_shown" =>
        /\ "lo" \notin DOMAIN net_deltas
        /\ total_rx_rate =
              SumOf(InterfaceDeltas(WithoutLo(current_network_stats),
                                    WithoutLo(old_network_stats)), "rx_delta")
        /\ total_tx_rate =
              SumOf(InterfaceDeltas(WithoutLo(current_network_stats),
                                    WithoutLo(old_network_stats)), "tx_delta")
        /\ (old_network_stats = ExampleNetA /\ current_network_stats = ExampleNetB) =>
              (total_rx_rate = 500 /\ total_tx_rate = 0)

\* the example of C4 has happened
C4_Witness ==
    /\ pc = "net_shown"
    /\ old_network_stats = ExampleNetA
    /\ current_network_stats = ExampleNetB
    /\ total_rx_rate = 500
    /\ total_tx_rate = 0

C6_PreviousIsLatestSample ==
    /\ pc # "net_prime" => previous_network_stats = net_read
    /\ pc = "net_shown" =>
          /\ previous_network_stats = current_network_stats
          /\ DOMAIN previous_network_stats = DOMAIN current_network_stats

\* eth0 disappeared and wlan0 appeared in one iteration, "lo" stayed
C6_Witness ==
    /\ pc = "net_shown"
    /\ {"eth0", "lo"} \subseteq DOMAIN old_network_stats
    /\ "wlan0" \notin DOMAIN old_network_stats
    /\ DOMAIN current_network_stats = {"lo", "wlan0"}
    /\ DOMAIN previous_network_stats = {"lo", "wlan0"}

-----------------------------------------------------------------------------
(* Claim about the poll loop, checked under Spec *)

Running ==
    pc \in {"getch", "cpu", "ram", "uptime", "disk", "temperature", "identity",
            "network", "render", "sleep"}
Stopped == pc \in {"stopped", "exited"}

\* no metric of this iteration has been read
NothingRead ==
    /\ cpu_usage = NoValue
    /\ ram_usage = NoValue
    /\ uptime = NoValue
    /\ disk_usage = NoValue
    /\ temperature = NoValue
    /\ hostname = ""
    /\ username = ""
    /\ current_network_stats = EmptyStats

\* C7: the loop leaves Running only through a quit request: the key is
\* checked before any metric is read, 'q' or 'Q' moves the loop to Stopped,
\* Stopped is terminal and nothing is read or drawn in that iteration or
\* afterwards, and no combination of unavailable metrics stops the loop: the
\* frame is drawn and the loop goes on.
C7_OnlyQuitStops ==
    [][ /\ (Running /\ ~Running') => (pc = "getch" /\ ch' \in {"q", "Q"})
        /\ pc = "getch" => NothingRead
        /\ (pc = "getch" /\ ch' \in {"q", "Q"}) =>
              (pc' = "stopped" /\ NothingRead' /\ frame' = frame)
        /\ (pc = "getch" /\ ch' \notin {"q", "Q"}) => pc' = "cpu"
        /\ Stopped => (Stopped' /\ NothingRead' /\ ~frame'.drawn)
        /\ pc = "render" => (pc' = "sleep" /\ frame'.drawn)
        /\ pc = "sleep" => pc' = "getch"
      ]_vars

\* a frame was drawn from a snapshot in which every metric is unavailable,
\* and the loop is still running
C7_Witness ==
    /\ pc = "sleep"
    /\ cpu_usage = Unavailable
    /\ ram_usage = Unavailable
    /\ disk_usage = Unavailable
    /\ temperature = Unavailable
    /\ current_network_stats = EmptyStats
    /\ hostname = "Unknown"
    /\ username = "Unknown"
    /\ frame = [NoFrame EXCEPT !.drawn = TRUE]

=============================================================================
